---- MODULE Spec2Model ----
(***************************************************************************)
(* The patient synchronization store of src/store/patientSlice.ts: the     *)
(* Redux slice (state + reducers), the two async thunks fetchPatients and  *)
(* createPatient with the remote service as their environment, the raw-    *)
(* record transformer and the registries they use (Spec, RegistrySpec);    *)
(* the form of AddPatientScreen over the store (FormSpec); and the cache   *)
(* path of src/api/patient-hooks.ts over the query client (CacheSpec).     *)
(*                                                                         *)
(* Conventions                                                             *)
(*  - An opaque JS string is a TLA+ string.  A string the code looks into  *)
(*    (toLowerCase, trim) is a sequence of one-character strings.          *)
(*  - A raw field that is absent (undefined / null) is the empty string:   *)
(*    every read of a raw field in transformPatientData goes through `||`  *)
(*    or `?.`, which treat undefined, null and "" alike.                   *)
(*  - Null is the JS null of `error` / `successMessage`; Undefined is the  *)
(*    value of a property the response does not carry.                     *)
(*  - Raw fields that are present hold strings, as the service sends them. *)
(***************************************************************************)
EXTENDS Integers, Sequences, FiniteSets, Bags, TLC

VARIABLES
    state,      \* the slice state: PatientState (patientSlice.ts:88-97)
    inflight,   \* the dispatched thunks whose remote call has not returned, in dispatch order
    env,        \* the clock and time zone of the device (read by new Date())
    last,       \* history: the reducer action applied last
    hist,       \* history of the observed in-flight operation
    screen,     \* AddPatientScreen: its formData and errors (part_000:517-533)
    cache,      \* the cache path: the query client's entries, the bag of
                \* mutations in flight and the state of the mutation settled last
    call        \* the application of a function on its own: function, arguments, result

vars == <<state, inflight, env, last, hist, screen, cache, call>>

\* what the store's own transitions never touch
aside == <<screen, cache, call>>

\* Bound: how many fetch/create operations may be in flight together.
MaxInFlight == 2

\* Bound: in how many fields the form on the screen may differ from the
\* filled-in form once it has been filled in.
MaxEdited == 1

Null == "<null>"
Undefined == "<undefined>"

\* JS truthiness of a string-or-absent value, as `||` sees it.
Falsy(s) == s \in {"", Null, Undefined}

\* the characters of a string literal
Chars(s) == [i \in 1..Len(s) |-> SubSeq(s, i, i)]

\* a || b on string-or-absent values
Or(a, b) == IF Falsy(a) THEN b ELSE a

----------------------------------------------------------------------------
(* Character strings *)

UpperLetters ==
    <<"A","B","C","D","E","F","G","H","I","J","K","L","M",
      "N","O","P","Q","R","S","T","U","V","W","X","Y","Z">>

LowerLetters ==
    <<"a","b","c","d","e","f","g","h","i","j","k","l","m",
      "n","o","p","q","r","s","t","u","v","w","x","y","z">>

WhiteSpace == {" ", "\t", "\n"}

\* Three characters outside ASCII, written by their code points: the dotless i
\* and the long s are lower case and have "I" and "S" as upper case; the
\* Kelvin sign is upper case and has "k" as lower case.
DotlessI == "<U+0131>"
LongS == "<U+017F>"
KelvinSign == "<U+212A>"

\* String.prototype.toLowerCase, character by character
toLowerCase(s) ==
    [i \in 1..Len(s) |->
        IF \E k \in 1..Len(UpperLetters) : UpperLetters[k] = s[i]
        THEN LowerLetters[CHOOSE k \in 1..Len(UpperLetters) : UpperLetters[k] = s[i]]
        ELSE IF s[i] = KelvinSign THEN "k"
        ELSE s[i]]

\* String.prototype.toUpperCase, character by character
toUpperCase(s) ==
    [i \in 1..Len(s) |->
        IF \E k \in 1..Len(LowerLetters) : LowerLetters[k] = s[i]
        THEN UpperLetters[CHOOSE k \in 1..Len(LowerLetters) : LowerLetters[k] = s[i]]
        ELSE IF s[i] = DotlessI THEN "I"
        ELSE IF s[i] = LongS THEN "S"
        ELSE s[i]]

RECURSIVE trimStart(_)
trimStart(s) ==
    IF s # <<>> /\ Head(s) \in WhiteSpace THEN trimStart(Tail(s)) ELSE s

RECURSIVE trimEnd(_)
trimEnd(s) ==
    IF s # <<>> /\ s[Len(s)] \in WhiteSpace
    THEN trimEnd(SubSeq(s, 1, Len(s) - 1))
    ELSE s

\* String.prototype.trim
trim(s) == trimEnd(trimStart(s))

----------------------------------------------------------------------------
(* Dates.  A raw date string is empty, unparseable, or "YYYY/MM/DD" (which  *)
(* new Date() reads as local midnight of that day).                         *)

NoDate == [kind |-> "empty", y |-> 0, m |-> 0, d |-> 0]
BadDate == [kind |-> "garbage", y |-> 0, m |-> 0, d |-> 0]
Ymd(yy, mm, dd) == [kind |-> "ymd", y |-> yy, m |-> mm, d |-> dd]

\* a || b on raw date strings
OrDate(a, b) == IF a.kind = "empty" THEN b ELSE a

IsLeap(y) == (y % 4 = 0 /\ y % 100 # 0) \/ y % 400 = 0

DaysInMonth(y, m) ==
    IF m = 2 THEN (IF IsLeap(y) THEN 29 ELSE 28)
    ELSE IF m \in {4, 6, 9, 11} THEN 30 ELSE 31

\* the calendar day before a "ymd" date
PrevDay(dt) ==
    IF dt.d > 1 THEN Ymd(dt.y, dt.m, dt.d - 1)
    ELSE IF dt.m > 1 THEN Ymd(dt.y, dt.m - 1, DaysInMonth(dt.y, dt.m - 1))
    ELSE Ymd(dt.y - 1, 12, 31)

\* new Date(local midnight of dt).toISOString().split("T")[0]: the UTC day of
\* local midnight, which is the previous day east of Greenwich.
UtcDayOfLocalMidnight(dt, e) == IF e.east THEN PrevDay(dt) ELSE dt

\* Mutant: the birthday of the current year is not looked at.
calculateAge_YearsOnly(dob, e) ==
    IF dob.kind = "empty" THEN "Unknown"
    ELSE IF dob.kind = "garbage" THEN "NaN"
    ELSE ToString(e.today.y - dob.y)

\* calculateAge(dob): new Date(unparseable) does not throw, it yields an
\* Invalid Date whose getters are NaN; every comparison with NaN is false.
calculateAge(dob, e) ==
    IF dob.kind = "empty" THEN "Unknown"
    ELSE IF dob.kind = "garbage" THEN "NaN"
    ELSE LET age == e.today.y - dob.y
             monthDiff == e.today.m - dob.m
         IN  IF monthDiff < 0 \/ (monthDiff = 0 /\ e.today.d < dob.d)
             THEN ToString(age - 1)
             ELSE ToString(age)

\* formatDate(dateStr): toISOString() throws on an Invalid Date, the catch
\* answers the current (UTC) day.
formatDate(dateStr, e) ==
    IF dateStr.kind = "empty" THEN e.utcToday
    ELSE IF dateStr.kind = "garbage" THEN e.utcToday
    ELSE UtcDayOfLocalMidnight(dateStr, e)

----------------------------------------------------------------------------
(* transformPatientData *)

\* Mutant: gender is copied as the service sent it.
transformPatientData_GenderAsSent(apiPatient, e) ==
    [ id |-> Or(apiPatient.midasid, Or(apiPatient.userid, "unknown")),
      firstName |-> Or(apiPatient.fname, ""),
      lastName |-> Or(apiPatient.lname, ""),
      gender |-> apiPatient.gender,
      age |-> calculateAge(OrDate(apiPatient.dobbs, apiPatient.dobad), e),
      year |-> "Years",
      dateOfBirth |-> OrDate(apiPatient.dobbs, apiPatient.dobad),
      email |-> Or(apiPatient.emailaddress, ""),
      phone |-> Or(apiPatient.mobilenumber, Or(apiPatient.phone, "")),
      relationship |-> IF apiPatient.user_type = "self" THEN "self" ELSE "relative",
      district |-> "District " \o Or(apiPatient.districtname, "undefined"),
      vdcMunicipality |-> "Municipality " \o Or(apiPatient.vdcname, "A"),
      wardNo |-> Or(apiPatient.wardno, "1"),
      tole |-> Or(apiPatient.address, "Unknown"),
      createdAt |-> formatDate(apiPatient.createddate, e),
      updatedAt |-> formatDate(apiPatient.datapostdatetime, e) ]

\* Mutant: the relative identifier is preferred.
transformPatientData_PrefersUserid(apiPatient, e) ==
    [ id |-> Or(apiPatient.userid, Or(apiPatient.midasid, "unknown")),
      firstName |-> Or(apiPatient.fname, ""),
      lastName |-> Or(apiPatient.lname, ""),
      gender |-> trim(toLowerCase(apiPatient.gender)),
      age |-> calculateAge(OrDate(apiPatient.dobbs, apiPatient.dobad), e),
      year |-> "Years",
      dateOfBirth |-> OrDate(apiPatient.dobbs, apiPatient.dobad),
      email |-> Or(apiPatient.emailaddress, ""),
      phone |-> Or(apiPatient.mobilenumber, Or(apiPatient.phone, "")),
      relationship |-> IF apiPatient.user_type = "self" THEN "self" ELSE "relative",
      district |-> "District " \o Or(apiPatient.districtname, "undefined"),
      vdcMunicipality |-> "Municipality " \o Or(apiPatient.vdcname, "A"),
      wardNo |-> Or(apiPatient.wardno, "1"),
      tole |-> Or(apiPatient.address, "Unknown"),
      createdAt |-> formatDate(apiPatient.createddate, e),
      updatedAt |-> formatDate(apiPatient.datapostdatetime, e) ]

transformPatientData(apiPatient, e) ==
    [ id |-> Or(apiPatient.midasid, Or(apiPatient.userid, "unknown")),
      firstName |-> Or(apiPatient.fname, ""),
      lastName |-> Or(apiPatient.lname, ""),
      gender |-> trim(toLowerCase(apiPatient.gender)),
      age |-> calculateAge(OrDate(apiPatient.dobbs, apiPatient.dobad), e),
      year |-> "Years",
      dateOfBirth |-> OrDate(apiPatient.dobbs, apiPatient.dobad),
      email |-> Or(apiPatient.emailaddress, ""),
      phone |-> Or(apiPatient.mobilenumber, Or(apiPatient.phone, "")),
      relationship |-> IF apiPatient.user_type = "self" THEN "self" ELSE "relative",
      district |-> "District " \o Or(apiPatient.districtname, "undefined"),
      vdcMunicipality |-> "Municipality " \o Or(apiPatient.vdcname, "A"),
      wardNo |-> Or(apiPatient.wardno, "1"),
      tole |-> Or(apiPatient.address, "Unknown"),
      createdAt |-> formatDate(apiPatient.createddate, e),
      updatedAt |-> formatDate(apiPatient.datapostdatetime, e) ]

----------------------------------------------------------------------------
(* The remote service: what a patient-list request and a create request can *)
(* come back with.                                                          *)

EmptyRaw ==
    [ midasid |-> "", userid |-> "", fname |-> "", lname |-> "", gender |-> <<>>,
      dobbs |-> NoDate, dobad |-> NoDate, emailaddress |-> "", mobilenumber |-> "",
      phone |-> "", user_type |-> "", districtname |-> "", vdcname |-> "",
      relationid |-> "", districtid |-> "", vdcid |-> "",
      wardno |-> "", address |-> "", createddate |-> NoDate,
      datapostdatetime |-> NoDate ]

\* the own record of the spec's fetch scenario
RawMy ==
    [EmptyRaw EXCEPT !.midasid = "1", !.fname = "A", !.lname = "B",
                     !.gender = <<"M","a","l","e">>, !.dobad = Ymd(1990, 1, 1)]

\* a relative with every field filled in
RawRelative ==
    [EmptyRaw EXCEPT !.userid = "2", !.fname = "Sita", !.lname = "Rai",
                     !.gender = <<" ","F","E","M","A","L","E"," ">>,
                     !.dobbs = Ymd(2047, 3, 14), !.dobad = Ymd(1990, 6, 28),
                     !.emailaddress = "sita@example.com",
                     !.mobilenumber = "9800000000", !.districtname = "Kathmandu",
                     !.vdcname = "B", !.wardno = "5", !.address = "Baneshwor",
                     !.createddate = Ymd(2024, 3, 1),
                     !.datapostdatetime = BadDate]

\* a relative with no identifier and an unparseable date of birth
RawNoId ==
    [EmptyRaw EXCEPT !.fname = "Hari", !.dobad = BadDate, !.phone = "014411223"]

\* a second relative with no identifier
RawAnon ==
    [EmptyRaw EXCEPT !.fname = "Gopal", !.gender = <<"m","a","l","e">>]

\* response.my: absent (<<>>) or one raw record (<<r>>)
MyChoices == {<<>>, <<RawMy>>}

\* response.list: each entry is a raw record (<<r>>) or something that is not
\* an object, such as null (<<>>).  The last two records of the filled list
\* get the same id ("unknown").
ListChoices == {<<>>, << <<RawRelative>>, <<>>, <<RawNoId>>, <<RawAnon>> >>}

RemoteMsg == "Session expired"
TransportMsg == "timeout of 10000ms exceeded"
TypeErrorMsg == "Cannot read property 'list' of undefined"
ListMsg == "Relative List"
CreatedMsg == "Relative added successfully"

\* What api.post(endpoints.getPatients) settles with.
\*   http = "ok":   the promise resolves; response.data is the envelope
\*                  {type, message, response}; hasResponse = FALSE is an
\*                  envelope without its `response` member.
\*   http = "fail": the promise rejects with an error whose
\*                  error.response.data.message is `message` and whose
\*                  error.message is `errMessage` ("" when absent).
FetchOutcomes ==
    [http : {"ok"}, type : {"success"}, message : {ListMsg}, hasResponse : {TRUE},
     my : MyChoices, list : ListChoices, errMessage : {""}]
    \cup
    [http : {"ok"}, type : {"success"}, message : {ListMsg}, hasResponse : {FALSE},
     my : {<<>>}, list : {<<>>}, errMessage : {""}]
    \cup
    [http : {"ok"}, type : {"error"}, message : {"", RemoteMsg}, hasResponse : {TRUE},
     my : {<<>>}, list : {<<>>}, errMessage : {""}]
    \cup
    [http : {"fail"}, type : {""}, message : {"", RemoteMsg}, hasResponse : {FALSE},
     my : {<<>>}, list : {<<>>}, errMessage : {"", TransportMsg}]

\* What api.post(endpoints.addPatient) settles with (same reading as above).
CreateOutcomes ==
    [http : {"ok"}, type : {"success"}, message : {CreatedMsg},
     errMessage : {""}]
    \cup
    [http : {"ok"}, type : {"error"}, message : {"", RemoteMsg}, errMessage : {""}]
    \cup
    [http : {"fail"}, type : {""}, message : {"", RemoteMsg},
     errMessage : {"", TransportMsg}]

----------------------------------------------------------------------------
(* The thunks' payload creators: from the settled remote call to the action *)
(* the thunk dispatches (fulfilled with a payload, or rejected with the     *)
(* value given to rejectWithValue).                                         *)

Fulfilled(p) == [fulfilled |-> TRUE, payload |-> p, error |-> Null]
\* Mutant: the failure leaves the thunk without rejectWithValue.
Rejected_NoValue(msg) == [fulfilled |-> FALSE, payload |-> <<>>, error |-> Undefined]

Rejected(msg) == [fulfilled |-> FALSE, payload |-> <<>>, error |-> msg]

\* list.forEach(relative => { if (relative && typeof relative === "object")
\*     patients.push(transformPatientData(relative)) })
RECURSIVE pushRelatives(_, _, _)
pushRelatives(patients, list, e) ==
    IF list = <<>> THEN patients
    ELSE pushRelatives(
            IF Head(list) # <<>>
            THEN Append(patients, transformPatientData(Head(list)[1], e))
            ELSE patients,
            Tail(list), e)

\* the catch block of both thunks
catchMessage(o, fallback) == Or(o.message, Or(o.errMessage, fallback))

fetchPatientsThunk(o, e) ==
    IF o.http = "fail"
    THEN Rejected(catchMessage(o, "Network error occurred while fetching patients"))
    ELSE IF o.type # "success"
    THEN Rejected("Failed to fetch patients from server")
    ELSE IF ~o.hasResponse
    THEN \* destructuring undefined throws a TypeError inside the try block
         Rejected(Or("", Or(TypeErrorMsg, "Network error occurred while fetching patients")))
    ELSE Fulfilled(
            pushRelatives(
                IF o.my # <<>> THEN <<transformPatientData(o.my[1], e)>> ELSE <<>>,
                o.list, e))

\* Mutant: the create thunk drops the service's message, as the fetch thunk does.
createPatientThunk_FixedMessage(o) ==
    IF o.http = "fail"
    THEN Rejected(catchMessage(o, "Network error occurred while creating patient"))
    ELSE IF o.type # "success"
    THEN Rejected("Failed to create patient")
    ELSE Fulfilled([type |-> o.type, message |-> o.message])

createPatientThunk(o) ==
    IF o.http = "fail"
    THEN Rejected(catchMessage(o, "Network error occurred while creating patient"))
    ELSE IF o.type # "success"
    THEN Rejected(Or(o.message, "Failed to create patient"))
    ELSE Fulfilled([type |-> o.type, message |-> o.message])

----------------------------------------------------------------------------
(* The slice: initial state and reducers *)

initialState ==
    [patients |-> <<>>, loading |-> FALSE, error |-> Null, successMessage |-> Null]

clearError(s) == [s EXCEPT !.error = Null]

clearSuccessMessage(s) == [s EXCEPT !.successMessage = Null]

\* Mutant: reset forgets the loading flag.
resetPatientState_KeepsLoading(s) ==
    [s EXCEPT !.patients = <<>>, !.error = Null, !.successMessage = Null]

resetPatientState(s) ==
    [s EXCEPT !.patients = <<>>, !.loading = FALSE, !.error = Null,
              !.successMessage = Null]

\* findIndex: the first index whose id matches, 0 for the code's -1
findIndex(patients, id) ==
    IF \E i \in 1..Len(patients) : patients[i].id = id
    THEN CHOOSE i \in 1..Len(patients) :
            /\ patients[i].id = id
            /\ \A j \in 1..(i - 1) : patients[j].id # id
    ELSE 0

\* Mutant: a payload whose id is not in the list is appended.
updatePatient_Upsert(s, payload) ==
    LET index == findIndex(s.patients, payload.id)
    IN  IF index # 0 THEN [s EXCEPT !.patients[index] = payload]
        ELSE [s EXCEPT !.patients = Append(s.patients, payload)]

updatePatient(s, payload) ==
    LET index == findIndex(s.patients, payload.id)
    IN  IF index # 0 THEN [s EXCEPT !.patients[index] = payload] ELSE s

\* Mutant: the start of a fetch does not clear error.
fetchPatients_pending_KeepsError(s) == [s EXCEPT !.loading = TRUE]

fetchPatients_pending(s) == [s EXCEPT !.loading = TRUE, !.error = Null]

\* Mutant: the fetched records are appended to the list instead of replacing it.
fetchPatients_fulfilled_Append(s, payload) ==
    [s EXCEPT !.loading = FALSE, !.patients = s.patients \o payload, !.error = Null]

\* Mutant: a response is dropped when the list is already filled.
fetchPatients_fulfilled_KeepExisting(s, payload) ==
    [s EXCEPT !.loading = FALSE,
              !.patients = IF s.patients = <<>> THEN payload ELSE s.patients,
              !.error = Null]

\* Mutant: a fulfilled fetch also clears successMessage.
fetchPatients_fulfilled_ClearsMessage(s, payload) ==
    [s EXCEPT !.loading = FALSE, !.patients = payload, !.error = Null,
              !.successMessage = Null]

fetchPatients_fulfilled(s, payload) ==
    [s EXCEPT !.loading = FALSE, !.patients = payload, !.error = Null]

\* Mutant: a failed fetch empties the list.
fetchPatients_rejected_ClearsList(s, payload) ==
    [s EXCEPT !.loading = FALSE, !.patients = <<>>, !.error = payload]

fetchPatients_rejected(s, payload) ==
    [s EXCEPT !.loading = FALSE, !.error = payload]

\* Mutant: the start of a create does not clear successMessage.
createPatient_pending_KeepsMessage(s) == [s EXCEPT !.loading = TRUE, !.error = Null]

createPatient_pending(s) ==
    [s EXCEPT !.loading = TRUE, !.error = Null, !.successMessage = Null]

\* Mutant: a fulfilled create does not clear error.
createPatient_fulfilled_KeepsError(s, payload) ==
    [s EXCEPT !.loading = FALSE, !.successMessage = payload.message]

createPatient_fulfilled(s, payload) ==
    [s EXCEPT !.loading = FALSE, !.successMessage = payload.message, !.error = Null]

\* Mutant: a failed create empties the list.
createPatient_rejected_ClearsList(s, payload) ==
    [s EXCEPT !.loading = FALSE, !.patients = <<>>, !.error = payload]

\* Mutant: a failed create leaves the loading flag as it is.
createPatient_rejected_KeepsLoading(s, payload) == [s EXCEPT !.error = payload]

createPatient_rejected(s, payload) ==
    [s EXCEPT !.loading = FALSE, !.error = payload]

----------------------------------------------------------------------------
(* The registries: from a name to the code the service knows it by.  A      *)
(* registry is an object literal, from keys (character sequences) to codes. *)

\* what every object literal inherits; the values are not strings
ObjectPrototype ==
    (Chars("constructor") :> "[Function: Object]")
    @@ (Chars("__proto__") :> "[Object: null prototype] {}")
    @@ (Chars("toString") :> "[Function: toString]")
    @@ (Chars("valueOf") :> "[Function: valueOf]")
    @@ (Chars("hasOwnProperty") :> "[Function: hasOwnProperty]")

\* map[key] on an object literal
get(map, key) ==
    IF key \in DOMAIN map THEN map[key]
    ELSE IF key \in DOMAIN ObjectPrototype THEN ObjectPrototype[key]
    ELSE Undefined

relationMap ==
    (Chars("spouse") :> "1") @@ (Chars("father") :> "2") @@ (Chars("mother") :> "2")
    @@ (Chars("parent") :> "3") @@ (Chars("child") :> "4") @@ (Chars("son") :> "4")
    @@ (Chars("daughter") :> "4") @@ (Chars("sibling") :> "5")
    @@ (Chars("brother") :> "5") @@ (Chars("sister") :> "5")
    @@ (Chars("grandparent") :> "6") @@ (Chars("grandchild") :> "7")
    @@ (Chars("relative") :> "8") @@ (Chars("other") :> "9")

districtMap ==
    (Chars("kathmandu") :> "46") @@ (Chars("lalitpur") :> "47")
    @@ (Chars("bhaktapur") :> "47") @@ (Chars("chitwan") :> "28")
    @@ (Chars("pokhara") :> "37") @@ (Chars("biratnagar") :> "56")
    @@ (Chars("birgunj") :> "52") @@ (Chars("dharan") :> "61")
    @@ (Chars("butwal") :> "35") @@ (Chars("hetauda") :> "50")

vdcMap ==
    (Chars("municipality_a") :> "1147") @@ (Chars("municipality_b") :> "1148")
    @@ (Chars("municipality_c") :> "1149") @@ (Chars("vdc_a") :> "1150")
    @@ (Chars("vdc_b") :> "1151")

\* Mutant: the registry has no entry for "sister".
getRelationshipId_NoSister(relationship) ==
    IF toLowerCase(relationship) = Chars("sister") THEN "9"
    ELSE Or(get(relationMap, toLowerCase(relationship)), "9")

getRelationshipId(relationship) == Or(get(relationMap, toLowerCase(relationship)), "9")

getDistrictId(district) == Or(get(districtMap, toLowerCase(district)), "46")

getVdcId(vdcMunicipality) == Or(get(vdcMap, toLowerCase(vdcMunicipality)), "1147")

\* the registries of the cache path (patient-hooks.ts)
hooks_relationMap ==
    (Chars("spouse") :> "1") @@ (Chars("child") :> "2") @@ (Chars("parent") :> "3")
    @@ (Chars("sibling") :> "4") @@ (Chars("grandparent") :> "5")
    @@ (Chars("grandchild") :> "6") @@ (Chars("relative") :> "9")
    @@ (Chars("other") :> "9")

hooks_districtMap ==
    (Chars("kathmandu") :> "45") @@ (Chars("lalitpur") :> "46")
    @@ (Chars("bhaktapur") :> "47")

hooks_vdcMap ==
    (Chars("municipality_a") :> "1147") @@ (Chars("municipality_b") :> "1148")

getRelationId(relationship) == Or(get(hooks_relationMap, toLowerCase(relationship)), "9")

hooks_getDistrictId(district) == Or(get(hooks_districtMap, toLowerCase(district)), "45")

hooks_getVdcId(vdcMunicipality) ==
    Or(get(hooks_vdcMap, toLowerCase(vdcMunicipality)), "1147")

\* The reverse registries of the cache path: from a code to a display name.
\* The codes the encoders return are not names of inherited properties, so
\* the lookup is the own-property lookup.
relationNames ==
    ("1" :> Chars("spouse")) @@ ("2" :> Chars("child")) @@ ("3" :> Chars("parent"))
    @@ ("4" :> Chars("sibling")) @@ ("5" :> Chars("grandparent"))
    @@ ("6" :> Chars("grandchild")) @@ ("9" :> Chars("relative"))

districtNames ==
    ("45" :> Chars("Kathmandu")) @@ ("46" :> Chars("Lalitpur"))
    @@ ("47" :> Chars("Bhaktapur"))

vdcNames ==
    ("1147" :> Chars("Municipality A")) @@ ("1148" :> Chars("Municipality B"))

getRelationshipName(relationId) ==
    IF relationId \in DOMAIN relationNames THEN relationNames[relationId]
    ELSE Chars("relative")

\* `District ${districtId}`: the code is kept as one character of the label,
\* and a code that is absent reads "undefined"
getDistrictName(districtId) ==
    IF districtId \in DOMAIN districtNames THEN districtNames[districtId]
    ELSE Chars("District ") \o <<Or(districtId, "undefined")>>

getVdcName(vdcId) ==
    IF vdcId \in DOMAIN vdcNames THEN vdcNames[vdcId]
    ELSE Chars("VDC ") \o <<Or(vdcId, "undefined")>>

\* apiData of the createPatient thunk: the body of the request
apiData(patientData) ==
    [fname |-> patientData.firstName,
     lname |-> patientData.lastName,
     gender |-> IF patientData.gender = Chars("male") THEN Chars("Male")
                ELSE Chars("Female"),
     age |-> patientData.age,
     agetype |-> patientData.year,
     email |-> patientData.email,
     mobileno |-> patientData.phone,
     countrycode |-> "977",
     relationid |-> getRelationshipId(patientData.relationship),
     districtid |-> getDistrictId(patientData.district),
     vdcid |-> getVdcId(patientData.vdcMunicipality),
     wardno |-> patientData.wardNo,
     address |-> patientData.tole,
     addtorelative |-> "Y"]

Digits == {"0", "1", "2", "3", "4", "5", "6", "7", "8", "9"}

\* phone.replace(/\D/g, '')
RECURSIVE digitsOf(_)
digitsOf(s) ==
    IF s = <<>> THEN <<>>
    ELSE IF Head(s) \in Digits THEN <<Head(s)>> \o digitsOf(Tail(s))
    ELSE digitsOf(Tail(s))

\* s.startsWith(prefix)
startsWith(s, prefix) ==
    Len(s) >= Len(prefix) /\ SubSeq(s, 1, Len(prefix)) = prefix

\* s.substring(n)
substring(s, n) == SubSeq(s, n + 1, Len(s))

cleanPhoneNumber(phone) ==
    LET digits == digitsOf(phone)
        local == IF startsWith(digits, Chars("977")) THEN substring(digits, 3)
                 ELSE digits
    IN  IF phone = <<>> THEN <<>>
        ELSE IF startsWith(local, Chars("0")) THEN substring(local, 1)
        ELSE local

\* apiData of useCreatePatient's mutationFn
useCreatePatient_apiData(data) ==
    [fname |-> data.firstName,
     lname |-> data.lastName,
     age |-> data.age,
     agetype |-> IF data.year = <<>> THEN Chars("Years") ELSE data.year,
     countrycode |-> "977",
     mobileno |-> cleanPhoneNumber(data.phone),
     email |-> data.email,
     gender |-> IF data.gender = <<>> THEN <<>>
                ELSE toUpperCase(<<data.gender[1]>>) \o Tail(data.gender),
     relationid |-> getRelationId(data.relationship),
     address |-> data.tole,
     districtid |-> hooks_getDistrictId(data.district),
     vdcid |-> hooks_getVdcId(data.vdcMunicipality),
     wardno |-> data.wardNo,
     addtorelative |-> "Y"]

----------------------------------------------------------------------------
(* AddPatientScreen: the form, its validation (part_000)                    *)
(* Form values are sequences of characters.                                 *)

RequiredFields ==
    {"firstName", "lastName", "gender", "age", "dateOfBirth", "phone",
     "relationship", "district", "vdcMunicipality", "wardNo", "tole"}

VALIDATION_RULES ==
    [firstName |-> [required |-> TRUE, message |-> "First name is required"],
     lastName |-> [required |-> TRUE, message |-> "Last name is required"],
     gender |-> [required |-> TRUE, message |-> "Gender is required"],
     age |-> [required |-> TRUE, message |-> "Age is required"],
     dateOfBirth |-> [required |-> TRUE, message |-> "Date of birth is required"],
     phone |-> [required |-> TRUE, message |-> "Phone number is required"],
     relationship |-> [required |-> TRUE, message |-> "Relationship is required"],
     district |-> [required |-> TRUE, message |-> "District is required"],
     vdcMunicipality |-> [required |-> TRUE, message |-> "VDC/Municipality is required"],
     wardNo |-> [required |-> TRUE, message |-> "Ward number is required"],
     tole |-> [required |-> TRUE, message |-> "Tole is required"],
     email |-> [required |-> FALSE, message |-> "Please enter a valid email address"]]

RuleFields == DOMAIN VALIDATION_RULES

\* /\S+@\S+\.\S+/.test(value): somewhere in value there is a character that
\* is not white space, then "@", then one or more such characters, then ".",
\* then such a character.
emailPattern(value) ==
    \E a, d \in 1..Len(value) :
        /\ value[a] = "@"
        /\ value[d] = "."
        /\ a >= 2
        /\ d >= a + 2
        /\ d < Len(value)
        /\ value[a - 1] \notin WhiteSpace
        /\ \A k \in (a + 1)..(d - 1) : value[k] \notin WhiteSpace
        /\ value[d + 1] \notin WhiteSpace

\* useState<PatientFormData>({...})
InitialFormData ==
    [firstName |-> <<>>, lastName |-> <<>>, gender |-> <<>>, age |-> <<>>,
     year |-> Chars("Years"), dateOfBirth |-> <<>>, email |-> <<>>, phone |-> <<>>,
     relationship |-> <<>>, district |-> <<>>, vdcMunicipality |-> <<>>,
     wardNo |-> <<>>, tole |-> <<>>]

\* errors: one message per rule field, "" where there is none
NoErrors == [f \in RuleFields |-> ""]

\* Mutant: a required field holding only white space passes.
validateForm_NoTrim(formData) ==
    [f \in RuleFields |->
        LET rule == VALIDATION_RULES[f]
            value == formData[f]
        IN  IF rule.required /\ value = <<>> THEN rule.message
            ELSE IF f = "email" /\ value # <<>> /\ ~emailPattern(value)
            THEN rule.message
            ELSE ""]

\* validateForm: the newErrors it computes
validateForm(formData) ==
    [f \in RuleFields |->
        LET rule == VALIDATION_RULES[f]
            value == formData[f]
        IN  IF rule.required /\ (value = <<>> \/ trim(value) = <<>>) THEN rule.message
            ELSE IF f = "email" /\ value # <<>> /\ ~emailPattern(value)
            THEN rule.message
            ELSE ""]

----------------------------------------------------------------------------
(* The cache path (patient-hooks.ts): the query client and the hooks.       *)
(* A query is absent (<<>>) or one entry (<<[data, isInvalidated, status]>>); *)
(* the list entry also keeps the time of its data (dataUpdatedAt).          *)

\* the ids the detail key is used with, and those of them that get updated
DetailIds == {"2", "7"}
UpdatedIds == {"2"}

\* Date.now().toString()
DateNow == "1718409600000"

NoQueries == [list |-> <<>>, detail |-> [id \in DetailIds |-> <<>>]]

\* the state of a mutation as useMutation returns it: status, the data the
\* mutationFn returned (<<>> when none) and the error's message
MutationState(kind, id, status, data, error) ==
    [kind |-> kind, id |-> id, status |-> status, data |-> data, error |-> error]

IdleMutation == MutationState("none", "", "idle", <<>>, Null)

\* Mutant: a detail key without an entry reads as a blank patient.
getQueryData_Blank(q, id) ==
    IF q.detail[id] = <<>>
    THEN <<[id |-> id, firstName |-> "", phone |-> "", updatedAt |-> ""]>>
    ELSE <<q.detail[id][1].data>>

\* queryClient.getQueryData(patientKeys.detail(id)): <<>> for undefined
getQueryData(q, id) == IF q.detail[id] = <<>> THEN <<>> ELSE <<q.detail[id][1].data>>

\* queryClient.setQueryData(patientKeys.detail(id), v)
setQueryData(q, id, v) ==
    [q EXCEPT !.detail[id] = <<[data |-> v, isInvalidated |-> FALSE, status |-> "success"]>>]

\* queryClient.removeQueries({ queryKey: patientKeys.detail(id) })
removeQueries(q, id) == [q EXCEPT !.detail[id] = <<>>]

\* queryClient.invalidateQueries({ queryKey: patientKeys.lists() }): every query
\* whose key starts with ['patients', 'list'] is marked; detail keys do not match
invalidateQueries(q) ==
    [q EXCEPT !.list = IF @ = <<>> THEN <<>> ELSE <<[@[1] EXCEPT !.isInvalidated = TRUE]>>]

\* calculateAge(dobad, dobbs) of patient-hooks.ts: dobbs is not read
hooks_calculateAge(dobad, dobbs, e) ==
    IF dobad.kind = "empty" THEN "0"
    ELSE IF dobad.kind = "garbage" THEN "NaN"
    ELSE LET age == e.today.y - dobad.y
             monthDiff == e.today.m - dobad.m
         IN  IF monthDiff < 0 \/ (monthDiff = 0 /\ e.today.d < dobad.d)
             THEN ToString(age - 1)
             ELSE ToString(age)

\* the default date of birth '1990-01-01'
DefaultDob == [kind |-> "y-m-d", y |-> 1990, m |-> 1, d |-> 1]

\* the mapper of usePatients; a null entry makes relative.userid throw
patientOfRelative(relative, e) ==
    [id |-> Or(relative.userid, DateNow),
     firstName |-> Or(relative.fname, ""),
     lastName |-> Or(relative.lname, ""),
     gender |-> IF relative.gender = <<>> THEN Chars("unknown")
                ELSE toLowerCase(relative.gender),
     age |-> Or(hooks_calculateAge(relative.dobad, relative.dobbs, e), "0"),
     year |-> "Years",
     dateOfBirth |-> OrDate(relative.dobad, DefaultDob),
     email |-> Or(relative.emailaddress, ""),
     phone |-> Or(relative.mobilenumber, ""),
     relationship |-> getRelationshipName(relative.relationid),
     district |-> getDistrictName(relative.districtid),
     vdcMunicipality |-> getVdcName(relative.vdcid),
     wardNo |-> Or(relative.wardno, "1"),
     tole |-> Or(relative.address, "Unknown"),
     createdAt |-> OrDate(relative.createddate, e.utcToday),
     updatedAt |-> OrDate(relative.createddate, e.utcToday)]

\* queryFn of usePatients
usePatients_queryFn(o, e) ==
    IF o.http = "fail" THEN Rejected(Or(o.errMessage, "Request failed"))
    ELSE IF o.hasResponse
    THEN IF \E k \in 1..Len(o.list) : o.list[k] = <<>>
         THEN Rejected("Cannot read property 'userid' of null")
         ELSE Fulfilled([k \in 1..Len(o.list) |-> patientOfRelative(o.list[k][1], e)])
    ELSE Fulfilled(<<>>)

\* Mutant: the query is given no staleTime (the library's default is 0).
usePatients_options_NoStaleTime == [queryKey |-> <<"patients", "list">>, staleTime |-> 0]

\* the options of usePatients' query other than queryFn; staleTime in minutes
usePatients_options == [queryKey |-> <<"patients", "list">>, staleTime |-> 5]

\* the list entry after the query's fetch has settled with r at time now
listQuerySettled(old, r, now) ==
    IF r.fulfilled
    THEN <<[data |-> <<r.payload>>, isInvalidated |-> FALSE, status |-> "success",
            dataUpdatedAt |-> now]>>
    ELSE IF old = <<>>
    THEN <<[data |-> <<>>, isInvalidated |-> FALSE, status |-> "error",
            dataUpdatedAt |-> 0]>>
    ELSE <<[old[1] EXCEPT !.status = "error"]>>

\* whether a read of the list entry has to fetch: no data, invalidated, or
\* the data is as old as staleTime
isStale(entry, now) ==
    \/ entry = <<>>
    \/ entry[1].data = <<>>
    \/ entry[1].isInvalidated
    \/ now - entry[1].dataUpdatedAt >= usePatients_options.staleTime

\* queryFn of usePatient(id), from the user record the service holds; of the
\* Patient it builds the model keeps id, firstName, phone and updatedAt
usePatient_queryFn(id, e) ==
    [id |-> id, firstName |-> "Leanne", phone |-> "1-770-736-8031",
     updatedAt |-> e.utcToday]

\* { ...existingPatient, ...data, updatedAt: new Date().toISOString() }
updatedPatient(existingPatient, data, e) ==
    [f \in DOMAIN existingPatient |->
        IF f = "updatedAt" THEN e.utcToday
        ELSE IF f \in DOMAIN data THEN data[f]
        ELSE existingPatient[f]]

----------------------------------------------------------------------------
(* The state machine *)

\* Devices: the local day, the UTC day at the same instant, whether the time
\* zone is east of Greenwich, and the clock in minutes (Date.now()).
Envs ==
    { [today |-> Ymd(2024, 6, 15), utcToday |-> Ymd(2024, 6, 15), east |-> FALSE,
       now |-> 0],
      [today |-> Ymd(2024, 1, 1), utcToday |-> Ymd(2023, 12, 31), east |-> TRUE,
       now |-> 0] }

\* Payloads of the updatePatient action: a patient whose id no fetched record
\* has, and an edited copy of the first relative whose id is "unknown".
UpdatePayloads ==
    { [transformPatientData(RawRelative, env) EXCEPT !.id = "77"],
      [transformPatientData(RawNoId, env) EXCEPT !.phone = "9811111111"] }

\* Mutant: the request stays in flight after its resolution (it is issued again).
RemoveAt_Retry(seq, i) == seq

RemoveAt(seq, i) == SubSeq(seq, 1, i - 1) \o SubSeq(seq, i + 1, Len(seq))

\* History.  One in-flight operation at a time may be observed (any one: the
\* choice is free at dispatch).  For the observed operation `hist` keeps the
\* entity list at its dispatch, whether a fetch dispatched after it has
\* already been fulfilled (late), and whether another create has been
\* fulfilled since its dispatch (mixed).
HistNone == [snap |-> <<>>, late |-> FALSE, mixed |-> FALSE]

\* no function applied on its own
NoCall == [fn |-> "none", result |-> <<>>]

Observed == {i \in 1..Len(inflight) : inflight[i].obs}

\* `last` is the reducer action applied last: its type, its payload when the
\* caller gives one (arg, <<>> otherwise) and, for a fulfilled or rejected
\* action, the outcome of the remote call it comes from and the history of its
\* operation if that was the observed one.
NoOutcome == [http |-> "none"]

Action(t) ==
    [type |-> t, arg |-> <<>>, outcome |-> NoOutcome, obs |-> FALSE, late |-> FALSE,
     mixed |-> FALSE]

Init ==
    /\ state = initialState
    /\ inflight = <<>>
    /\ env \in Envs
    /\ last = Action("@@INIT")
    /\ hist = HistNone
    /\ screen = [formData |-> InitialFormData, errors |-> NoErrors]
    /\ cache = [queries |-> NoQueries, mutations |-> EmptyBag, mutation |-> IdleMutation]
    /\ call = NoCall

\* dispatch(fetchPatients()): the pending action is reduced synchronously and
\* the request leaves.
DispatchFetch(obs) ==
    /\ Len(inflight) < MaxInFlight
    /\ obs => Observed = {}
    /\ state' = fetchPatients_pending(state)
    /\ inflight' = Append(inflight, [kind |-> "fetch", obs |-> obs])
    /\ hist' = IF obs THEN [HistNone EXCEPT !.snap = state.patients] ELSE hist
    /\ last' = Action("fetchPatients/pending")
    /\ UNCHANGED <<env, aside>>

\* dispatch(createPatient(formData))
DispatchCreate(obs) ==
    /\ Len(inflight) < MaxInFlight
    /\ obs => Observed = {}
    /\ state' = createPatient_pending(state)
    /\ inflight' = Append(inflight, [kind |-> "create", obs |-> obs])
    /\ hist' = IF obs THEN HistNone ELSE hist
    /\ last' = Action("createPatient/pending")
    /\ UNCHANGED <<env, aside>>

\* The remote call of the i-th in-flight fetch settles with o; the thunk
\* dispatches fulfilled or rejected.
ResolveFetch(i, o) ==
    /\ i \in 1..Len(inflight)
    /\ inflight[i].kind = "fetch"
    /\ LET r == fetchPatientsThunk(o, env)
           op == inflight[i]
       IN  /\ state' = IF r.fulfilled
                       THEN fetchPatients_fulfilled(state, r.payload)
                       ELSE fetchPatients_rejected(state, r.error)
           /\ inflight' = RemoveAt(inflight, i)
           /\ hist' = IF op.obs THEN HistNone
                      ELSE IF r.fulfilled /\ \E k \in Observed : k < i /\ inflight[k].kind = "fetch"
                      THEN [hist EXCEPT !.late = TRUE]
                      ELSE hist
           /\ last' = [type |-> IF r.fulfilled THEN "fetchPatients/fulfilled"
                                ELSE "fetchPatients/rejected",
                       arg |-> <<>>,
                       outcome |-> o,
                       obs |-> op.obs,
                       late |-> op.obs /\ hist.late,
                       mixed |-> op.obs /\ hist.mixed]
    /\ UNCHANGED <<env, aside>>

\* The remote call of the i-th in-flight create settles with o.
ResolveCreate(i, o) ==
    /\ i \in 1..Len(inflight)
    /\ inflight[i].kind = "create"
    /\ LET r == createPatientThunk(o)
           op == inflight[i]
       IN  /\ state' = IF r.fulfilled
                       THEN createPatient_fulfilled(state, r.payload)
                       ELSE createPatient_rejected(state, r.error)
           /\ inflight' = RemoveAt(inflight, i)
           /\ hist' = IF op.obs THEN HistNone
                      ELSE IF r.fulfilled /\ \E k \in Observed : inflight[k].kind = "create"
                      THEN [hist EXCEPT !.mixed = TRUE]
                      ELSE hist
           /\ last' = [type |-> IF r.fulfilled THEN "createPatient/fulfilled"
                                ELSE "createPatient/rejected",
                       arg |-> <<>>,
                       outcome |-> o,
                       obs |-> op.obs,
                       late |-> op.obs /\ hist.late,
                       mixed |-> op.obs /\ hist.mixed]
    /\ UNCHANGED <<env, aside>>

ClearError ==
    /\ state' = clearError(state)
    /\ last' = Action("clearError")
    /\ UNCHANGED <<inflight, env, hist, aside>>

ClearSuccessMessage ==
    /\ state' = clearSuccessMessage(state)
    /\ last' = Action("clearSuccessMessage")
    /\ UNCHANGED <<inflight, env, hist, aside>>

ResetPatientState ==
    /\ state' = resetPatientState(state)
    /\ last' = Action("resetPatientState")
    /\ UNCHANGED <<inflight, env, hist, aside>>

UpdatePatient(p) ==
    /\ state' = updatePatient(state, p)
    /\ last' = [Action("updatePatient") EXCEPT !.arg = <<p>>]
    /\ UNCHANGED <<inflight, env, hist, aside>>

Next ==
    \/ \E obs \in BOOLEAN : DispatchFetch(obs)
    \/ \E obs \in BOOLEAN : DispatchCreate(obs)
    \/ \E i \in 1..MaxInFlight, o \in FetchOutcomes : ResolveFetch(i, o)
    \/ \E i \in 1..MaxInFlight, o \in CreateOutcomes : ResolveCreate(i, o)
    \/ ClearError
    \/ ClearSuccessMessage
    \/ ResetPatientState
    \/ \E p \in UpdatePayloads : UpdatePatient(p)

Spec == Init /\ [][Next]_vars

----------------------------------------------------------------------------
(* AddPatientScreen over the store *)

\* a form filled in completely
FilledFormData ==
    [firstName |-> Chars("Sita"), lastName |-> Chars("Rai"), gender |-> Chars("female"),
     age |-> Chars("34"), year |-> Chars("Years"), dateOfBirth |-> Chars("1990/06/28"),
     email |-> Chars("sita@example.com"), phone |-> Chars("9800000000"),
     relationship |-> Chars("sister"), district |-> Chars("Unknown City"),
     vdcMunicipality |-> Chars("municipality_b"), wardNo |-> Chars("5"),
     tole |-> Chars("Baneshwor")]

\* what the user may put into a field
FieldValues(field) ==
    IF field = "email"
    THEN {<<>>, Chars(" "), Chars("sita@example"), Chars("@example.com"),
          Chars("to sita@example.com"), FilledFormData.email}
    ELSE IF field = "year" THEN {Chars("Years"), Chars("Months")}
    ELSE {<<>>, Chars(" \t"), FilledFormData[field]}

Edited(formData, base) == Cardinality({f \in DOMAIN base : formData[f] # base[f]})

\* the fields from the top of the screen to the bottom
FieldOrder ==
    <<"firstName", "lastName", "gender", "age", "year", "dateOfBirth", "email",
      "phone", "relationship", "district", "vdcMunicipality", "wardNo", "tole">>

\* the blank form being filled in from the top: the first k fields are filled
FillingIn ==
    { [f \in DOMAIN InitialFormData |->
          IF \E j \in 1..k : FieldOrder[j] = f
          THEN FilledFormData[f] ELSE InitialFormData[f]] : k \in 0..Len(FieldOrder) }

FormInit ==
    /\ state = initialState
    /\ inflight = <<>>
    /\ env \in Envs
    /\ last = Action("@@INIT")
    /\ hist = HistNone
    /\ screen = [formData |-> InitialFormData, errors |-> NoErrors]
    /\ cache = [queries |-> NoQueries, mutations |-> EmptyBag, mutation |-> IdleMutation]
    /\ call = NoCall

\* updateFormData(field, value)
UpdateFormData(field, value) ==
    /\ LET formData == [screen.formData EXCEPT ![field] = value]
       IN  /\ formData # screen.formData
           /\ \/ formData \in FillingIn
              \/ Edited(formData, FilledFormData) <= MaxEdited
           /\ screen' = [formData |-> formData,
                         errors |-> IF field \in RuleFields /\ screen.errors[field] # ""
                                    THEN [screen.errors EXCEPT ![field] = ""]
                                    ELSE screen.errors]
    /\ UNCHANGED <<state, inflight, env, last, hist, cache, call>>

\* The Save button (disabled while loading) is pressed: handleSubmit.
HandleSubmit ==
    /\ ~state.loading
    /\ Len(inflight) < MaxInFlight
    /\ LET newErrors == validateForm(screen.formData)
       IN  /\ screen' = [screen EXCEPT !.errors = newErrors]
           /\ IF newErrors = NoErrors
              THEN /\ state' = createPatient_pending(state)
                   /\ inflight' = Append(inflight, [kind |-> "create", obs |-> FALSE])
                   /\ last' = Action("createPatient/pending")
              ELSE UNCHANGED <<state, inflight, last>>
    /\ UNCHANGED <<env, hist, cache, call>>

FormNext ==
    \/ \E field \in DOMAIN InitialFormData :
          \E value \in FieldValues(field) : UpdateFormData(field, value)
    \/ HandleSubmit
    \/ \E i \in 1..MaxInFlight, o \in CreateOutcomes : ResolveCreate(i, o)

FormSpec == FormInit /\ [][FormNext]_vars

----------------------------------------------------------------------------
(* The cache path: queries and mutations over the query client *)

\* what the service answers to the list query
ListQueryOutcomes ==
    [http : {"ok"}, type : {"success"}, message : {ListMsg}, hasResponse : {TRUE},
     my : {<<>>}, list : {<<>>, << <<RawRelative>>, <<RawNoId>> >>, << <<>> >>},
     errMessage : {""}]
    \cup
    [http : {"ok"}, type : {"error"}, message : {RemoteMsg}, hasResponse : {FALSE},
     my : {<<>>}, list : {<<>>}, errMessage : {""}]
    \cup
    [http : {"fail"}, type : {""}, message : {""}, hasResponse : {FALSE},
     my : {<<>>}, list : {<<>>}, errMessage : {TransportMsg}]

\* the `data` of the update mutation's variables
UpdateData == {[firstName |-> "Gita"], [phone |-> "9811111111"]}

Mutation(kind, id, data, existing, result) ==
    [kind |-> kind, id |-> id, data |-> data, existing |-> existing, result |-> result]

CacheInit ==
    /\ state = initialState
    /\ inflight = <<>>
    /\ env \in {e \in Envs : ~e.east}
    /\ last = Action("@@INIT")
    /\ hist = HistNone
    /\ screen = [formData |-> InitialFormData, errors |-> NoErrors]
    /\ cache = [queries |-> NoQueries, mutations |-> EmptyBag, mutation |-> IdleMutation]
    /\ call = NoCall

store == <<state, inflight, env, last, hist, screen, call>>

\* the list query of usePatients settles with o
ListFetched(o) ==
    /\ cache' = [cache EXCEPT !.queries.list =
                    listQuerySettled(@, usePatients_queryFn(o, env), env.now)]
    /\ UNCHANGED store

\* the detail query of usePatient(id) settles with the user record
DetailFetched(id) ==
    /\ cache' = [cache EXCEPT !.queries = setQueryData(@, id, usePatient_queryFn(id, env))]
    /\ UNCHANGED store

\* useCreatePatient().mutate(data): the request leaves
MutateCreate ==
    /\ BagCardinality(cache.mutations) < MaxInFlight
    /\ cache' = [cache EXCEPT !.mutations =
                    @ (+) SetToBag({Mutation("create", "", <<>>, <<>>, <<>>)})]
    /\ UNCHANGED store

\* the request of a create in flight settles with o
SettleCreate(m, o) ==
    /\ BagIn(m, cache.mutations)
    /\ m.kind = "create"
    /\ cache' =
          IF o.http = "ok"
          THEN \* mutationFn returns response.data; onSuccess
               [queries |-> invalidateQueries(cache.queries),
                mutations |-> cache.mutations (-) SetToBag({m}),
                mutation |-> MutationState("create", "", "success",
                                           <<[type |-> o.type, message |-> o.message]>>, Null)]
          ELSE \* api.post throws; onError only logs
               [queries |-> cache.queries,
                mutations |-> cache.mutations (-) SetToBag({m}),
                mutation |-> MutationState("create", "", "error", <<>>,
                                           Or(o.errMessage, "Request failed"))]
    /\ UNCHANGED store

\* useUpdatePatient().mutate({id, data}): the mutationFn reads the detail
\* entry and throws, or merges and starts to wait
MutateUpdate(id, data) ==
    /\ BagCardinality(cache.mutations) < MaxInFlight
    /\ LET existingPatient == getQueryData(cache.queries, id)
       IN  cache' =
             IF existingPatient = <<>>
             THEN [cache EXCEPT !.mutation =
                      MutationState("update", id, "error", <<>>, "Patient not found")]
             ELSE [cache EXCEPT !.mutations =
                      @ (+) SetToBag({Mutation("update", id, data, existingPatient,
                                <<updatedPatient(existingPatient[1], data, env)>>)})]
    /\ UNCHANGED store

\* Mutant: the update's onSuccess only invalidates the list.
useUpdatePatient_onSuccess_NoWrite(q, result) == invalidateQueries(q)

\* onSuccess of useUpdatePatient
useUpdatePatient_onSuccess(q, result) ==
    invalidateQueries(setQueryData(q, result.id, result))

\* the wait of an update in flight is over; onSuccess
SettleUpdate(m) ==
    /\ BagIn(m, cache.mutations)
    /\ m.kind = "update"
    /\ cache' =
          [queries |-> useUpdatePatient_onSuccess(cache.queries, m.result[1]),
           mutations |-> cache.mutations (-) SetToBag({m}),
           mutation |-> MutationState("update", m.id, "success", <<>>, Null)]
    /\ UNCHANGED store

\* useDeletePatient().mutate(id)
MutateDelete(id) ==
    /\ BagCardinality(cache.mutations) < MaxInFlight
    /\ cache' = [cache EXCEPT !.mutations =
                    @ (+) SetToBag({Mutation("delete", id, <<>>, <<>>, <<>>)})]
    /\ UNCHANGED store

\* the wait of a delete in flight is over; onSuccess
SettleDelete(m) ==
    /\ BagIn(m, cache.mutations)
    /\ m.kind = "delete"
    /\ cache' =
          [queries |-> invalidateQueries(removeQueries(cache.queries, m.id)),
           mutations |-> cache.mutations (-) SetToBag({m}),
           mutation |-> MutationState("delete", m.id, "success", <<>>, Null)]
    /\ UNCHANGED store

CacheNext ==
    \/ \E o \in ListQueryOutcomes : ListFetched(o)
    \/ \E id \in DetailIds : DetailFetched(id)
    \/ MutateCreate
    \/ \E m \in BagToSet(cache.mutations), o \in CreateOutcomes : SettleCreate(m, o)
    \/ \E id \in UpdatedIds, data \in UpdateData : MutateUpdate(id, data)
    \/ \E m \in BagToSet(cache.mutations) : SettleUpdate(m)
    \/ \E id \in DetailIds : MutateDelete(id)
    \/ \E m \in BagToSet(cache.mutations) : SettleDelete(m)

CacheSpec == CacheInit /\ [][CacheNext]_vars

----------------------------------------------------------------------------
(* The cache path: reads of the list key as time passes.  `inflight` holds  *)
(* the list fetches under way, `call` the read or the settled fetch that    *)
(* came last.                                                               *)

\* Bound: how many minutes the clock runs.
MaxNow == 6

ReadInit ==
    /\ state = initialState
    /\ inflight = <<>>
    /\ env \in {e \in Envs : ~e.east}
    /\ last = Action("@@INIT")
    /\ hist = HistNone
    /\ screen = [formData |-> InitialFormData, errors |-> NoErrors]
    /\ cache = [queries |-> NoQueries, mutations |-> EmptyBag, mutation |-> IdleMutation]
    /\ call = NoCall

\* a minute passes
Tick ==
    /\ env.now < MaxNow
    /\ env' = [env EXCEPT !.now = @ + 1]
    /\ UNCHANGED <<state, inflight, last, hist, screen, cache, call>>

\* read(patientKeys.lists()): a component starts to use usePatients.  A fresh
\* entry is returned as it is; otherwise a fetch leaves and nothing is
\* returned until it settles.
Read ==
    /\ LET entry == cache.queries.list
           stale == isStale(entry, env.now)
       IN  /\ stale => Len(inflight) < MaxInFlight
           /\ inflight' = IF stale THEN Append(inflight, [kind |-> "list", obs |-> FALSE])
                          ELSE inflight
           /\ call' = [fn |-> "usePatients",
                       result |-> IF stale THEN <<>> ELSE entry[1].data,
                       requested |-> stale, outcome |-> NoOutcome]
    /\ UNCHANGED <<state, env, last, hist, screen, cache>>

\* a list fetch under way settles with o: the entry is written and returned
ReadSettled(o) ==
    /\ inflight # <<>>
    /\ inflight' = Tail(inflight)
    /\ LET entry == listQuerySettled(cache.queries.list, usePatients_queryFn(o, env),
                                     env.now)
       IN  /\ cache' = [cache EXCEPT !.queries.list = entry]
           /\ call' = [fn |-> "usePatients/settled", result |-> entry[1].data,
                       requested |-> FALSE, outcome |-> o]
    /\ UNCHANGED <<state, env, last, hist, screen>>

ReadNext ==
    \/ Tick
    \/ Read
    \/ \E o \in ListQueryOutcomes : ReadSettled(o)
    \/ MutateCreate
    \/ \E m \in BagToSet(cache.mutations) :
          \E o \in {x \in CreateOutcomes : x.type = "success"} : SettleCreate(m, o)

ReadSpec == ReadInit /\ [][ReadNext]_vars

----------------------------------------------------------------------------
(* The registries and the request body, applied on their own *)

\* s with every occurrence of the character a replaced by b
Replace(s, a, b) == [i \in 1..Len(s) |-> IF s[i] = a THEN b ELSE s[i]]

Capitalize(s) == IF s = <<>> THEN s ELSE toUpperCase(<<s[1]>>) \o Tail(s)

RegistryKeys ==
    DOMAIN relationMap \cup DOMAIN districtMap \cup DOMAIN vdcMap

\* Names: the keys as written, in capitals, capitalized, with the Kelvin sign
\* for k, the dotless i for i and the long s for s; and names no registry has.
Names ==
    UNION { {key, toUpperCase(key), Capitalize(key), Replace(key, "k", KelvinSign),
             Replace(key, "i", DotlessI), Replace(key, "s", LongS)} :
            key \in RegistryKeys }
    \cup {<<>>, Chars("Unknown City"), Chars("aunt"), Chars("vdc_c"), Chars(" sister"),
          Chars("constructor"), Chars("Constructor"), Chars("__proto__"),
          Chars("toString")}

Paths == {"store", "cache"}
Categories == {"relationship", "district", "vdcMunicipality"}

\* the encoder of a category in a path
encode(path, category, name) ==
    IF path = "store"
    THEN IF category = "relationship" THEN getRelationshipId(name)
         ELSE IF category = "district" THEN getDistrictId(name)
         ELSE getVdcId(name)
    ELSE IF category = "relationship" THEN getRelationId(name)
         ELSE IF category = "district" THEN hooks_getDistrictId(name)
         ELSE hooks_getVdcId(name)

\* the decoder of a category (the cache path has the only ones)
decode(category, code) ==
    IF category = "relationship" THEN getRelationshipName(code)
    ELSE IF category = "district" THEN getDistrictName(code)
    ELSE getVdcName(code)

\* the transformer of a path: from a raw record to a Patient
fromRemote(path, raw, e) ==
    IF path = "store" THEN transformPatientData(raw, e) ELSE patientOfRelative(raw, e)

\* a relative whose date of birth is given in the Bikram Sambat calendar only
RawBsOnly ==
    [EmptyRaw EXCEPT !.userid = "3", !.fname = "Maya", !.dobbs = Ymd(2047, 3, 14)]

\* a record with both identifiers
RawBoth ==
    [EmptyRaw EXCEPT !.midasid = "10", !.userid = "20", !.fname = "Bina",
                     !.dobad = Ymd(2023, 6, 16)]

\* the raw records the transformers are applied to
RawRecords == {EmptyRaw, RawMy, RawRelative, RawNoId, RawAnon, RawBsOnly, RawBoth}

\* the calendar day after a "ymd" date
NextDay(dt) ==
    IF dt.d < DaysInMonth(dt.y, dt.m) THEN Ymd(dt.y, dt.m, dt.d + 1)
    ELSE IF dt.m < 12 THEN Ymd(dt.y, dt.m + 1, 1)
    ELSE Ymd(dt.y + 1, 1, 1)

\* the same day of the year before, <<>> when that year has no such day
YearBefore(dt) ==
    IF dt.d <= DaysInMonth(dt.y - 1, dt.m) THEN <<Ymd(dt.y - 1, dt.m, dt.d)>> ELSE <<>>

\* the dates lying one year minus one day before dt: the day after dt's day of
\* the year before, or the day of the year before of the day after dt
YearLessADayBefore(dt) ==
    {NextDay(x[1]) : x \in {YearBefore(dt)} \ {<<>>}}
    \cup {x[1] : x \in {YearBefore(NextDay(dt))} \ {<<>>}}

\* current dates: in the middle of a month, at the ends of months and years,
\* around 29 February
Todays ==
    {Ymd(2024, 6, 15), Ymd(2024, 12, 31), Ymd(2023, 12, 31), Ymd(2024, 1, 1),
     Ymd(2025, 1, 1), Ymd(2024, 1, 31), Ymd(2024, 3, 1), Ymd(2024, 2, 28),
     Ymd(2024, 2, 29), Ymd(2025, 2, 28), Ymd(2024, 4, 30)}

\* dates of birth: a year less a day before a current date, a year before it,
\* some fixed days, none, and an unparseable one
Dobs ==
    UNION {YearLessADayBefore(t) : t \in Todays}
    \cup UNION {{x[1] : x \in {YearBefore(t)} \ {<<>>}} : t \in Todays}
    \cup {Ymd(1990, 1, 1), Ymd(1990, 6, 28), Ymd(2000, 12, 31), NoDate, BadDate}

\* list responses whose records have both identifiers, one, or none
IdOutcomes ==
    [http : {"ok"}, type : {"success"}, message : {ListMsg}, hasResponse : {TRUE},
     my : {<<>>, <<RawMy>>, <<RawBoth>>},
     list : {<<>>, << <<RawNoId>>, <<RawBoth>>, <<RawAnon>> >>,
             << <<RawRelative>>, <<EmptyRaw>> >>},
     errMessage : {""}]

\* the forms a create is dispatched with
SubmittedForms ==
    { [FilledFormData EXCEPT !.relationship = r, !.district = d, !.gender = g] :
        r \in {Chars("sister"), Chars("brother"), Chars("sibling"), Chars("Sister"),
               Chars("other")},
        d \in {Chars("Unknown City"), Chars("kathmandu"), Chars("lalitpur")},
        g \in {Chars("male"), Chars("female")} }

\* the request body a path builds from a form
toRemote(path, patientData) ==
    IF path = "store" THEN apiData(patientData) ELSE useCreatePatient_apiData(patientData)

\* the string of a sequence of characters
RECURSIVE Str(_)
Str(s) == IF s = <<>> THEN "" ELSE Head(s) \o Str(Tail(s))

\* The service echoes a request body as a raw record: what was sent as
\* mobileno comes back as mobilenumber, email as emailaddress; the other
\* fields keep their names.
Echo(payload) ==
    [EmptyRaw EXCEPT !.fname = Str(payload.fname), !.lname = Str(payload.lname),
                     !.gender = payload.gender,
                     !.emailaddress = Str(payload.email),
                     !.mobilenumber = Str(payload.mobileno),
                     !.relationid = payload.relationid,
                     !.districtid = payload.districtid, !.vdcid = payload.vdcid,
                     !.wardno = Str(payload.wardno), !.address = Str(payload.address)]

\* forms sent to the service: the three genders, phone numbers as people
\* write them, and a form whose ward and tole were left empty
RemoteForms ==
    { [FilledFormData EXCEPT !.gender = g, !.phone = ph] :
        g \in {Chars("male"), Chars("female"), Chars("other")},
        ph \in {Chars("9800000000"), Chars("+977-9800000000"), Chars("014411223"),
                Chars("980 000 0000")} }
    \cup {[FilledFormData EXCEPT !.wardNo = <<>>, !.tole = <<>>],
          [FilledFormData EXCEPT !.firstName = Chars(" Sita "), !.tole = Chars("Ward 5, Tole-2")]}

\* the raw phone numbers cleanPhoneNumber is called with
Phones ==
    {<<>>, Chars("9800000000"), Chars("+977-9800000000"), Chars("09800000000"),
     Chars("(980) 000-0000"), Chars("9770123456"), Chars("0012345"),
     Chars("9779779800000000"), Chars("09771234567"), Chars("n/a")}

\* a function and its arguments, not applied yet (result <<>>)
Calls ==
    [fn : {"encode"}, path : Paths, category : Categories, name : Names, result : {<<>>}]
    \cup [fn : {"apiData"}, patientData : SubmittedForms, result : {<<>>}]
    \cup [fn : {"roundTrip"}, category : Categories, name : Names, result : {<<>>}]
    \cup [fn : {"fromRemote"}, path : Paths, raw : RawRecords, result : {<<>>}]
    \cup [fn : {"calculateAge"}, today : Todays, dob : Dobs, result : {<<>>}]
    \cup [fn : {"fetchPatients"}, outcome : IdOutcomes, result : {<<>>}]
    \cup [fn : {"toRemote", "echo"}, path : Paths, patientData : RemoteForms,
          result : {<<>>}]
    \cup [fn : {"cleanPhoneNumber"}, phone : Phones, result : {<<>>}]

RegistryInit ==
    /\ state = initialState
    /\ inflight = <<>>
    /\ env \in {e \in Envs : ~e.east}
    /\ last = Action("@@INIT")
    /\ hist = HistNone
    /\ screen = [formData |-> InitialFormData, errors |-> NoErrors]
    /\ cache = [queries |-> NoQueries, mutations |-> EmptyBag, mutation |-> IdleMutation]
    /\ call \in Calls

Encode ==
    /\ call.fn = "encode"
    /\ call.result = <<>>
    /\ call' = [call EXCEPT !.result = <<encode(call.path, call.category, call.name)>>]
    /\ UNCHANGED <<state, inflight, env, last, hist, screen, cache>>

\* the body of the request that createPatient(patientData) sends
BuildApiData ==
    /\ call.fn = "apiData"
    /\ call.result = <<>>
    /\ call' = [call EXCEPT !.result = <<apiData(call.patientData)>>]
    /\ UNCHANGED <<state, inflight, env, last, hist, screen, cache>>

\* a name is encoded and the code is decoded (cache path)
RoundTrip ==
    /\ call.fn = "roundTrip"
    /\ call.result = <<>>
    /\ call' = [call EXCEPT !.result =
                    <<decode(call.category, encode("cache", call.category, call.name))>>]
    /\ UNCHANGED <<state, inflight, env, last, hist, screen, cache>>

\* a raw record is transformed
FromRemote ==
    /\ call.fn = "fromRemote"
    /\ call.result = <<>>
    /\ call' = [call EXCEPT !.result = <<fromRemote(call.path, call.raw, env)>>]
    /\ UNCHANGED <<state, inflight, env, last, hist, screen, cache>>

\* calculateAge(dob) of the store path on the day call.today
CalculateAge ==
    /\ call.fn = "calculateAge"
    /\ call.result = <<>>
    /\ call' = [call EXCEPT !.result =
                    <<calculateAge(call.dob, [env EXCEPT !.today = call.today])>>]
    /\ UNCHANGED <<state, inflight, env, last, hist, screen, cache>>

\* the payload creator of fetchPatients on a response
FetchPatients ==
    /\ call.fn = "fetchPatients"
    /\ call.result = <<>>
    /\ call' = [call EXCEPT !.result = <<fetchPatientsThunk(call.outcome, env)>>]
    /\ UNCHANGED <<state, inflight, env, last, hist, screen, cache>>

\* the request body of a create, in either path
ToRemote ==
    /\ call.fn = "toRemote"
    /\ call.result = <<>>
    /\ call' = [call EXCEPT !.result = <<toRemote(call.path, call.patientData)>>]
    /\ UNCHANGED <<state, inflight, env, last, hist, screen, cache>>

\* a form is sent, echoed by the service, and transformed
EchoBack ==
    /\ call.fn = "echo"
    /\ call.result = <<>>
    /\ call' = [call EXCEPT !.result =
                    <<fromRemote(call.path, Echo(toRemote(call.path, call.patientData)),
                                 env)>>]
    /\ UNCHANGED <<state, inflight, env, last, hist, screen, cache>>

\* cleanPhoneNumber(phone)
CleanPhoneNumber ==
    /\ call.fn = "cleanPhoneNumber"
    /\ call.result = <<>>
    /\ call' = [call EXCEPT !.result = <<cleanPhoneNumber(call.phone)>>]
    /\ UNCHANGED <<state, inflight, env, last, hist, screen, cache>>

RegistryNext ==
    \/ Encode
    \/ BuildApiData
    \/ RoundTrip
    \/ FromRemote
    \/ CalculateAge
    \/ FetchPatients
    \/ ToRemote
    \/ EchoBack
    \/ CleanPhoneNumber

RegistrySpec == RegistryInit /\ [][RegistryNext]_vars

----------------------------------------------------------------------------
(* Vocabulary of the claims *)

\* the empty/idle configuration, written out
EmptyIdle ==
    [patients |-> <<>>, loading |-> FALSE, error |-> Null, successMessage |-> Null]

Both == state.error # Null /\ state.successMessage # Null

IsMessage(m) == m \notin {Null, Undefined, ""}

TerminalTypes ==
    {"fetchPatients/fulfilled", "fetchPatients/rejected",
     "createPatient/fulfilled", "createPatient/rejected"}

GenericFallbacks ==
    {"Failed to fetch patients from server",
     "Network error occurred while fetching patients",
     "Failed to create patient",
     "Network error occurred while creating patient"}

\* The remote call answered and the service said "success" with a response body.
FetchSucceeds(o) == o.http = "ok" /\ o.type = "success" /\ o.hasResponse

\* The service answered with a non-success type, or the transport failed.
RemoteFails(o) == o.http = "fail" \/ (o.http = "ok" /\ o.type # "success")

\* The records of a response, transformed: the own record first if present,
\* then the list's records in the order the service gave them.
TransformedRecords(o, e) ==
    LET records == SelectSeq(o.list, LAMBDA x : x # <<>>)
    IN  (IF o.my # <<>> THEN <<transformPatientData(o.my[1], e)>> ELSE <<>>)
        \o [k \in 1..Len(records) |-> transformPatientData(records[k][1], e)]

\* error is the most specific message o offers: the service's message, else
\* the transport error's message, else a generic fallback
MostSpecific(err, o) ==
    IF IsMessage(o.message) THEN err = o.message
    ELSE IF IsMessage(o.errMessage) THEN err = o.errMessage
    ELSE err \in GenericFallbacks

----------------------------------------------------------------------------
(* Claims *)

FetchResolved(l) == l.type \in {"fetchPatients/fulfilled", "fetchPatients/rejected"}
CreateResolved(l) == l.type \in {"createPatient/fulfilled", "createPatient/rejected"}

\* C1 (as claimed): while any fetch or create is in flight, loading is true.
C1_LoadingWhileInFlight == Len(inflight) > 0 => state.loading = TRUE

\* C2: a successful fetch leaves loading false, error null, and the entity
\* list equal to the transformed records of the response (own record first,
\* then the list in remote order), whatever the list held before.
C2_FetchFulfilledReplaces ==
    (FetchResolved(last) /\ FetchSucceeds(last.outcome)) =>
        /\ state.loading = FALSE
        /\ state.error = Null
        /\ state.patients = TransformedRecords(last.outcome, env)

C2_Witness ==
    /\ FetchResolved(last)
    /\ FetchSucceeds(last.outcome)
    /\ last.outcome.my # <<>>
    /\ Len(last.outcome.list) = 4
    /\ Len(state.patients) = 4

\* C3 (as claimed): after a failed fetch the entity list is what it was when
\* that fetch was dispatched, error is a non-null string, loading is false.
C3_ListAsAtDispatch ==
    [][(FetchResolved(last') /\ RemoteFails(last'.outcome) /\ last'.obs) =>
          /\ state'.patients = hist.snap
          /\ IsMessage(state'.error)
          /\ state'.loading = FALSE]_vars

\* C3 (amended): the rejection of a fetch (non-success answer, transport
\* failure, or an answer without a response body) leaves the entity list as it
\* was just before the rejection, sets error to a non-null string and loading
\* to false.
C3_RejectedKeepsList ==
    [][(FetchResolved(last') /\ ~FetchSucceeds(last'.outcome)) =>
          /\ state'.patients = state.patients
          /\ IsMessage(state'.error)
          /\ state'.loading = FALSE]_vars

C3_Witness ==
    /\ FetchResolved(last)
    /\ ~FetchSucceeds(last.outcome)
    /\ Len(state.patients) > 0
    /\ IsMessage(state.error)
    /\ ~state.loading

\* C4 (as claimed): a failed fetch sets error to the service's message when
\* there is one, else the transport error's message, else a generic fallback.
C4_MostSpecificMessage ==
    (FetchResolved(last) /\ RemoteFails(last.outcome)) =>
        MostSpecific(state.error, last.outcome)

\* C5: a fulfilled fetch that resolves after a fetch dispatched later than it
\* has already been fulfilled is applied all the same: the entity list becomes
\* the list of the response that resolved last.
C5_LateFetchApplied ==
    (FetchResolved(last) /\ last.late /\ FetchSucceeds(last.outcome)) =>
        state.patients = TransformedRecords(last.outcome, env)

C5_Witness ==
    /\ FetchResolved(last)
    /\ last.late
    /\ FetchSucceeds(last.outcome)
    /\ Len(state.patients) = 1

\* C6: a create answered with type "success" sets loading false, successMessage
\* to the response's message and error to null, and leaves the entity list.
C6_CreateFulfilled ==
    [][(CreateResolved(last') /\ last'.outcome.http = "ok"
                              /\ last'.outcome.type = "success") =>
          /\ state'.loading = FALSE
          /\ state'.successMessage = last'.outcome.message
          /\ state'.error = Null
          /\ state'.patients = state.patients]_vars

C6_Witness ==
    /\ CreateResolved(last)
    /\ last.outcome.type = "success"
    /\ state.successMessage = CreatedMsg
    /\ Len(state.patients) > 0

\* C7: a failed create sets error to a non-null message (the service's, else
\* the transport's, else a generic fallback) and loading to false, and changes
\* nothing else of the store.
C7_CreateRejected ==
    [][(CreateResolved(last') /\ RemoteFails(last'.outcome)) =>
          /\ MostSpecific(state'.error, last'.outcome)
          /\ IsMessage(state'.error)
          /\ state' = [state EXCEPT !.loading = FALSE, !.error = state'.error]]_vars

C7_Witness ==
    /\ CreateResolved(last)
    /\ RemoteFails(last.outcome)
    /\ state.error = RemoteMsg
    /\ Len(state.patients) > 0
    /\ ~state.loading

\* C8 (as claimed): from the start of an operation to the state right after its
\* resolution the store never holds both an error and a success message.
C8_ExclusiveInLifecycle ==
    (Len(inflight) > 0 \/ last.type \in TerminalTypes) => ~Both

\* C8 (amended): within the lifecycle of a create during which no other create
\* is fulfilled, the store never holds both an error and a success message.
C8_ExclusiveInCreateLifecycle ==
    /\ (\E k \in Observed : inflight[k].kind = "create" /\ ~hist.mixed) => ~Both
    /\ (CreateResolved(last) /\ last.obs /\ ~last.mixed) => ~Both

C8_Witness ==
    /\ CreateResolved(last)
    /\ last.obs
    /\ ~last.mixed
    /\ state.error # Null
    /\ Len(inflight) > 0

\* C9: the start of a fetch sets loading and clears error; the start of a
\* create sets loading and clears error and successMessage; neither changes
\* the entity list.
C9_PendingTransitions ==
    [][/\ last'.type = "fetchPatients/pending" =>
              /\ state'.loading = TRUE
              /\ state'.error = Null
              /\ state'.patients = state.patients
       /\ last'.type = "createPatient/pending" =>
              /\ state'.loading = TRUE
              /\ state'.error = Null
              /\ state'.successMessage = Null
              /\ state'.patients = state.patients]_vars

C9_Witness ==
    /\ last.type \in {"fetchPatients/pending", "createPatient/pending"}
    /\ state.loading
    /\ state.error = Null
    /\ Len(state.patients) > 0
    /\ Len(inflight) > 1

\* C10: the store starts empty and idle, and resetPatientState leaves it
\* empty and idle whatever it held.
C10_ResetIsInitial ==
    last.type \in {"@@INIT", "resetPatientState"} => state = EmptyIdle

C10_Witness ==
    /\ last.type = "resetPatientState"
    /\ Len(inflight) > 0
    /\ state = EmptyIdle

\* C11: updatePatient(p) puts p in the place of the first entity whose id is
\* p.id and changes nothing else (length, every other entity, loading, error,
\* successMessage); when no entity has that id the state is unchanged.
C11_UpdatePatientFrame ==
    [][last'.type = "updatePatient" =>
          LET p == last'.arg[1]
              ids == {i \in 1..Len(state.patients) : state.patients[i].id = p.id}
          IN  /\ Len(state'.patients) = Len(state.patients)
              /\ state'.loading = state.loading
              /\ state'.error = state.error
              /\ state'.successMessage = state.successMessage
              /\ ids = {} => state' = state
              /\ \A i \in 1..Len(state.patients) :
                    state'.patients[i] =
                        IF i \in ids /\ \A j \in ids : i <= j
                        THEN p ELSE state.patients[i]]_vars

\* two entities share the payload's id and only the first one is the payload
C11_Witness ==
    /\ last.type = "updatePatient"
    /\ \E i, j \in 1..Len(state.patients) :
          /\ i < j
          /\ state.patients[i] = last.arg[1]
          /\ state.patients[j].id = last.arg[1].id
          /\ state.patients[j] # last.arg[1]

\* C12: only a fulfilled fetch, resetPatientState and updatePatient change the
\* entity list; the pending and rejected transitions of fetch, every
\* transition of create, clearError and clearSuccessMessage leave it as it is.
C12_ListChangedOnlyBy ==
    [][state'.patients # state.patients =>
          last'.type \in {"fetchPatients/fulfilled", "resetPatientState",
                          "updatePatient"}]_vars

C12_Witness ==
    /\ last.type \in {"fetchPatients/rejected", "createPatient/rejected"}
    /\ Len(state.patients) = 4
    /\ state.patients[1].id = "1"
    /\ state.error = TransportMsg

\* a required field is empty or holds only white space, or the email is not
\* empty and does not match the email pattern
Blocking(formData) ==
    \/ \E f \in RequiredFields :
          \A k \in 1..Len(formData[f]) : formData[f][k] \in WhiteSpace
    \/ formData.email # <<>> /\ ~emailPattern(formData.email)

\* C13: when a required field is empty or white space only, or a non-empty
\* email does not match the pattern, handleSubmit dispatches no create: no
\* request leaves and the store state is unchanged.
C13_ValidationBlocks ==
    [][(HandleSubmit /\ Blocking(screen.formData)) =>
          /\ state' = state
          /\ inflight' = inflight
          /\ last' = last]_vars

\* a submission has been blocked after an earlier one went through: the screen
\* shows the message of a field that holds white space, and the store is as
\* the earlier create left it
C13_Witness ==
    /\ screen.errors.tole # ""
    /\ screen.formData.tole = Chars(" \t")
    /\ state.successMessage = CreatedMsg
    /\ ~state.loading
    /\ inflight = <<>>

\* the list entry, if there is one, is marked invalid and holds the data it held
ListInvalidated(q, q2) ==
    q.list # <<>> => q2.list = <<[q.list[1] EXCEPT !.isInvalidated = TRUE]>>

C15_FailureIndicatorFails ==
    [][\A m \in BagToSet(cache.mutations) :
          (/\ m.kind = "create"
           /\ cache'.mutations = cache.mutations (-) SetToBag({m})
           /\ cache'.mutation.data # <<>>
           /\ cache'.mutation.data[1].type # "success") =>
              /\ cache'.mutation.status = "error"
              /\ cache'.queries = cache.queries]_vars

\* seq2 is seq without its i-th element
Without(seq, i, seq2) ==
    /\ Len(seq2) = Len(seq) - 1
    /\ \A k \in 1..Len(seq2) : seq2[k] = IF k < i THEN seq[k] ELSE seq[k + 1]

ThunkName(kind) == IF kind = "fetch" THEN "fetchPatients" ELSE "createPatient"

\* C16: when the remote call of a dispatched fetch or create returns or fails
\* (an answer without a response body included), the operation ends with
\* exactly one terminal action of its thunk and leaves the operations in
\* flight: fulfilled, or rejected with a non-null string that is the store's
\* error afterwards.
C16_OneTerminalResolution ==
    [][/\ last'.type \in TerminalTypes <=> Len(inflight') < Len(inflight)
       /\ Len(inflight') < Len(inflight) =>
              \E i \in 1..Len(inflight) :
                 /\ Without(inflight, i, inflight')
                 /\ \/ /\ last'.type = ThunkName(inflight[i].kind) \o "/fulfilled"
                       /\ state'.error = Null
                    \/ /\ last'.type = ThunkName(inflight[i].kind) \o "/rejected"
                       /\ IsMessage(state'.error)
                       /\ state'.error =
                            IF inflight[i].kind = "fetch"
                            THEN fetchPatientsThunk(last'.outcome, env).error
                            ELSE createPatientThunk(last'.outcome).error]_vars

\* the exception thrown on an answer without a response body has been caught
C16_Witness ==
    /\ last.type = "fetchPatients/rejected"
    /\ last.outcome.http = "ok"
    /\ last.outcome.type = "success"
    /\ ~last.outcome.hasResponse
    /\ state.error = TypeErrorMsg
    /\ Len(inflight) = 1

\* C17: a request leaves only with the pending action of a dispatch, one per
\* dispatch; a rejection takes one operation out of flight and issues no
\* request.
C17_NoRetry ==
    [][/\ Len(inflight') > Len(inflight) =>
              /\ last'.type \in {"fetchPatients/pending", "createPatient/pending"}
              /\ Len(inflight') = Len(inflight) + 1
              /\ SubSeq(inflight', 1, Len(inflight)) = inflight
              /\ last'.type = ThunkName(inflight'[Len(inflight')].kind) \o "/pending"
       /\ last'.type \in {"fetchPatients/pending", "createPatient/pending"} =>
              Len(inflight') = Len(inflight) + 1
       /\ last'.type \in {"fetchPatients/rejected", "createPatient/rejected"} =>
              \E i \in 1..Len(inflight) : Without(inflight, i, inflight')]_vars

\* a fetch has failed and nothing is in flight
C17_Witness ==
    /\ last.type = "fetchPatients/rejected"
    /\ state.error = "Failed to fetch patients from server"
    /\ inflight = <<>>
    /\ Len(state.patients) > 0

\* the registry and the default code of a category in a path
Registry(path, category) ==
    IF path = "store"
    THEN IF category = "relationship" THEN relationMap
         ELSE IF category = "district" THEN districtMap ELSE vdcMap
    ELSE IF category = "relationship" THEN hooks_relationMap
         ELSE IF category = "district" THEN hooks_districtMap ELSE hooks_vdcMap

DefaultCode(path, category) ==
    IF category = "relationship" THEN "9"
    ELSE IF category = "district" THEN (IF path = "store" THEN "46" ELSE "45")
    ELSE "1147"

Codes(map) == {map[key] : key \in DOMAIN map}

\* C18 (as claimed): in both paths and every category, a name, the name in
\* lower case and the name in upper case are encoded alike.
C18_CaseInsensitive ==
    (call.fn = "encode" /\ call.result # <<>>) =>
        /\ call.result[1] = encode(call.path, call.category, toLowerCase(call.name))
        /\ call.result[1] = encode(call.path, call.category, toUpperCase(call.name))

\* C19 (as claimed): in the store path a name that no key of the registry
\* matches is encoded as the default code ("9", "46", "1147"), and every
\* value returned is a code of the registry.
C19_TotalWithDefault ==
    (call.fn = "encode" /\ call.path = "store" /\ call.result # <<>>) =>
        LET map == Registry("store", call.category)
        IN  /\ toLowerCase(call.name) \notin DOMAIN map =>
                  call.result[1] = DefaultCode("store", call.category)
            /\ call.result[1] \in Codes(map)

C21_RoundTrip ==
    (/\ call.fn = "roundTrip"
     /\ call.result # <<>>
     /\ toLowerCase(call.name) \in DOMAIN Registry("cache", call.category)) =>
        encode("cache", call.category, call.result[1])
            = encode("cache", call.category, call.name)

\* C22 (as claimed): in both paths, the Patient made from a raw record that
\* has neither dobbs nor dobad has age "Unknown".
C22_NoDobAgeUnknown ==
    (/\ call.fn = "fromRemote"
     /\ call.result # <<>>
     /\ call.raw.dobbs.kind = "empty"
     /\ call.raw.dobad.kind = "empty") =>
        call.result[1].age = "Unknown"

\* C23 (as claimed): for a date of birth one year minus one day before the
\* current date, the age is current year - birth year - 1, also on 31 December
\* and 1 January.
C23_YearLessADay ==
    (/\ call.fn = "calculateAge"
     /\ call.result # <<>>
     /\ call.dob \in YearLessADayBefore(call.today)) =>
        call.result[1] = ToString(call.today.y - call.dob.y - 1)

\* C23 (amended): for a date of birth one year minus one day before the
\* current date the age is 0, which is current year - birth year - 1 on every
\* current date but 31 December; on 31 December the date of birth is
\* 1 January of the current year and 0 is current year - birth year.
C23_YearLessADayIsZero ==
    (/\ call.fn = "calculateAge"
     /\ call.result # <<>>
     /\ call.dob \in YearLessADayBefore(call.today)) =>
        /\ call.result[1] = "0"
        /\ IF call.today.m = 12 /\ call.today.d = 31
           THEN call.dob = Ymd(call.today.y, 1, 1)
           ELSE call.result[1] = ToString(call.today.y - call.dob.y - 1)

C23_Witness ==
    /\ call.fn = "calculateAge"
    /\ call.today = Ymd(2024, 12, 31)
    /\ call.dob \in YearLessADayBefore(call.today)
    /\ call.dob = Ymd(2024, 1, 1)
    /\ call.result = <<"0">>

\* C24 (as claimed): the store-path Patient made from a raw record whose date
\* of birth cannot be parsed has age "Unknown".
C24_UnparseableAgeUnknown ==
    (/\ call.fn = "fromRemote"
     /\ call.path = "store"
     /\ call.result # <<>>
     /\ OrDate(call.raw.dobbs, call.raw.dobad).kind = "garbage") =>
        call.result[1].age = "Unknown"

\* C25: after a successful fetch whose response holds the own record
\* {midasid "1", fname "A", lname "B", gender "Male", dobad 1990/01/01} and an
\* empty list, the store holds exactly one Patient, with id "1", firstName "A"
\* and gender "male".
C25_OwnRecordScenario ==
    (/\ last.type = "fetchPatients/fulfilled"
     /\ last.outcome.my = <<RawMy>>
     /\ last.outcome.list = <<>>) =>
        /\ Len(state.patients) = 1
        /\ state.patients[1].id = "1"
        /\ state.patients[1].firstName = "A"
        /\ state.patients[1].gender = Chars("male")

C25_Witness ==
    /\ last.type = "fetchPatients/fulfilled"
    /\ last.outcome.my = <<RawMy>>
    /\ last.outcome.list = <<>>
    /\ Len(state.patients) = 1
    /\ state.patients[1].lastName = "B"

\* the records of a response as the service gave them: the own record first,
\* then the list's records
RawRecordsOf(o) ==
    LET records == SelectSeq(o.list, LAMBDA x : x # <<>>)
    IN  (IF o.my # <<>> THEN <<o.my[1]>> ELSE <<>>)
        \o [k \in 1..Len(records) |-> records[k][1]]

NoIdentifier(raw) == raw.midasid = "" /\ raw.userid = ""

\* C28: the id of a transformed record is midasid when that is present and
\* not empty, otherwise userid when that is present and not empty, otherwise
\* "unknown"; two records of one fetched list that lack both get the same id.
C28_IdentifierSelection ==
    (call.fn = "fetchPatients" /\ call.result # <<>> /\ call.result[1].fulfilled) =>
        LET raws == RawRecordsOf(call.outcome)
            patients == call.result[1].payload
        IN  /\ Len(patients) = Len(raws)
            /\ \A i \in 1..Len(raws) :
                  patients[i].id =
                      IF raws[i].midasid # "" THEN raws[i].midasid
                      ELSE IF raws[i].userid # "" THEN raws[i].userid
                      ELSE "unknown"
            /\ \A i, j \in 1..Len(raws) :
                  (NoIdentifier(raws[i]) /\ NoIdentifier(raws[j])) =>
                      patients[i].id = patients[j].id

C28_Witness ==
    /\ call.fn = "fetchPatients"
    /\ call.result # <<>>
    /\ call.result[1].fulfilled
    /\ call.outcome.my = <<RawBoth>>
    /\ Len(call.result[1].payload) = 4
    /\ call.result[1].payload[1].id = "10"
    /\ call.result[1].payload[3].id = "10"
    /\ NoIdentifier(RawRecordsOf(call.outcome)[2])
    /\ NoIdentifier(RawRecordsOf(call.outcome)[4])
    /\ call.result[1].payload[2].id = call.result[1].payload[4].id

\* C26 (as claimed): in both paths the request body's gender is the form's
\* gender with its first letter in upper case, for male, female and other.
C26_GenderCapitalized ==
    (/\ call.fn = "toRemote"
     /\ call.result # <<>>
     /\ call.patientData.gender \in {Chars("male"), Chars("female"), Chars("other")}) =>
        call.result[1].gender = Capitalize(call.patientData.gender)

\* C27 (as claimed): when the service echoes the request body of a form back
\* as a raw record, the Patient made from it has the form's firstName,
\* lastName, phone, wardNo and tole.
C27_RoundTripFields ==
    (call.fn = "echo" /\ call.result # <<>>) =>
        /\ call.result[1].firstName = Str(call.patientData.firstName)
        /\ call.result[1].lastName = Str(call.patientData.lastName)
        /\ call.result[1].phone = Str(call.patientData.phone)
        /\ call.result[1].wardNo = Str(call.patientData.wardNo)
        /\ call.result[1].tole = Str(call.patientData.tole)

C30_IdleNotLoading == inflight = <<>> => state.loading = FALSE

C30_Witness ==
    /\ inflight = <<>>
    /\ last.type = "createPatient/rejected"
    /\ state.error # Null
    /\ state.loading = FALSE
    /\ Len(state.patients) > 0

\* C31 (as claimed): the resolution of a fetch or create that was in flight
\* when resetPatientState was applied does not write into the store: a
\* fulfilled or rejected action that comes right after the reset leaves the
\* store in its initial configuration.
C31_ResetIsolatesInFlight ==
    [][(last.type = "resetPatientState" /\ last'.type \in TerminalTypes) =>
          state' = initialState]_vars

\* C32: no transition of a fetch changes successMessage, so the message of an
\* earlier create is still there after later fetches.
C32_FetchKeepsSuccessMessage ==
    [][state'.successMessage # state.successMessage =>
          last'.type \notin {"fetchPatients/pending", "fetchPatients/fulfilled",
                             "fetchPatients/rejected"}]_vars

C32_Witness ==
    /\ last.type = "fetchPatients/fulfilled"
    /\ state.successMessage = CreatedMsg
    /\ Len(state.patients) > 0
    /\ inflight = <<>>

\* C33 (as claimed): right after a delete of id has succeeded, the detail
\* entry of id, absent, comes back only by a read of that id: a step that
\* makes it present settles no mutation.
C33_DeletedStaysAbsent ==
    [][\A id \in DetailIds :
          (/\ cache.mutation.kind = "delete"
           /\ cache.mutation.id = id
           /\ cache.mutation.status = "success"
           /\ cache.queries.detail[id] = <<>>
           /\ cache'.queries.detail[id] # <<>>)
          => cache'.mutations = cache.mutations]_vars

\* C34 (as claimed): when an update of id settles right after another update
\* of id has succeeded, a change the entry holds in a field the settling
\* update does not change is still in the entry (and so is the settling
\* update's own change).
C34_NoLostUpdate ==
    [][\A m \in BagToSet(cache.mutations) :
          (/\ m.kind = "update"
           /\ cache'.mutations = cache.mutations (-) SetToBag({m})
           /\ cache.mutation.kind = "update"
           /\ cache.mutation.id = m.id
           /\ cache.mutation.status = "success"
           /\ cache.queries.detail[m.id] # <<>>)
          => /\ cache'.queries.detail[m.id] # <<>>
             /\ \A f \in DOMAIN m.data :
                   cache'.queries.detail[m.id][1].data[f] = m.data[f]
             /\ \A c \in UpdateData : \A f \in DOMAIN c \ DOMAIN m.data :
                   cache.queries.detail[m.id][1].data[f] = c[f] =>
                      cache'.queries.detail[m.id][1].data[f] = c[f]]_vars

\* C35: while id has no detail entry, no update of id goes in flight, and the
\* update that is called ends at once in the error 'Patient not found' with
\* every query of the cache as it was (no entry written, list not marked).
C35_UpdateWithoutEntryFails ==
    [][\A id \in UpdatedIds :
          cache.queries.detail[id] = <<>> =>
             /\ \A m \in BagToSet(cache'.mutations) :
                   (m.kind = "update" /\ m.id = id) =>
                      CopiesIn(m, cache'.mutations) <= CopiesIn(m, cache.mutations)
             /\ (/\ cache'.mutations = cache.mutations
                 /\ cache'.mutation # cache.mutation
                 /\ cache'.mutation.kind = "update"
                 /\ cache'.mutation.id = id)
                => /\ cache'.mutation.status = "error"
                   /\ cache'.mutation.error = "Patient not found"
                   /\ cache'.mutation.data = <<>>
                   /\ cache'.queries = cache.queries]_vars

\* an update of "2" has failed with no detail entry of "2", beside a list
\* entry that is not marked invalid
C35_Witness ==
    /\ cache.mutation = MutationState("update", "2", "error", <<>>, "Patient not found")
    /\ cache.queries.detail["2"] = <<>>
    /\ cache.queries.list # <<>>
    /\ cache.queries.list[1].status = "success"
    /\ ~cache.queries.list[1].isInvalidated
    /\ cache.mutations = EmptyBag

\* C36 (as claimed): after a list fetch has settled with a response that is
\* an error envelope or has no list array, the list entry is in the error
\* state.
C36_ErrorEnvelopeIsError ==
    (/\ call.fn = "usePatients/settled"
     /\ call.outcome.http = "ok"
     /\ (call.outcome.type # "success" \/ ~call.outcome.hasResponse))
    => /\ cache.queries.list # <<>>
       /\ cache.queries.list[1].status = "error"

\* C37 (as claimed): for every input, what cleanPhoneNumber returns is made of
\* digits only, does not start with the country code 977, does not start
\* with 0, and is returned unchanged when it is cleaned again.
C37_CleanIsNormalForm ==
    (call.fn = "cleanPhoneNumber" /\ call.result # <<>>) =>
        LET cleaned == call.result[1]
        IN  /\ \A k \in 1..Len(cleaned) : cleaned[k] \in Digits
            /\ ~startsWith(cleaned, Chars("977"))
            /\ ~startsWith(cleaned, Chars("0"))
            /\ cleanPhoneNumber(cleaned) = cleaned

====
